---- MODULE Spec2Model ----
(***************************************************************************)
(* Model of src/server.js (Ollama model manager gateway).                  *)
(*                                                                         *)
(* The handlers are modelled under one specification each:                 *)
(*   Spec         one relay operation, handleModelOperation (POST          *)
(*                /api/pull and POST /api/update-model), with its backend  *)
(*                stream and its client connection;                        *)
(*   SpecLive     Spec with the fairness of the backend's answers;         *)
(*   SpecDelete   one batch delete, app.delete('/api/models');             *)
(*   SpecModels   one listing, app.get('/api/models');                     *)
(*   SpecConfig   getEndpointConfigs and getApiKeyFor on a configuration;  *)
(*   SpecGateway  concurrent requests and the backend calls they issue     *)
(*                against the active target, ollamaEndpoint.               *)
(* Text is a sequence of one-character strings, so that split('\n'),       *)
(* trim() and JSON.parse are computed and not assumed.                     *)
(***************************************************************************)
EXTENDS Integers, Sequences, FiniteSets, TLC

VARIABLES
    handler,       \* which handler this behaviour runs: "relay", "delete", "models"
    pc,            \* position of the handler's async function
    hasEnded,      \* server.js:228  let hasEnded
    writes,        \* the res.write calls of the relay, in call order
    endCalls,      \* number of res.end calls of the relay
    clientClosed,  \* the client has disconnected
    stream,        \* response.data: "none", "open", "ended", "errored"
    received,      \* the chunks response.data has emitted as 'data', in order
    terminal,      \* the trigger whose endResponse call took effect, if any
    lateWrite,     \* a record was forwarded after a terminal event had occurred
    closedError,   \* an error record was written with the client already closed
    models,        \* DELETE: req.body.models;  GET: response.data.models
    outcome,       \* per sub-call: "none" (not issued), "pending", "ok", "fail"
    detail,        \* GET: per detail sub-call, the body of its answer
    backend,       \* DELETE: the model names the backend still stores
    response,      \* the JSON answer of the non-streaming handler
    env,           \* process.env.OLLAMA_ENDPOINTS
    configs,       \* what the last getEndpointConfigs() call returned
    lookup,        \* the last getApiKeyFor call: its url and what it returned
    ollamaEndpoint, \* server.js:64  let ollamaEndpoint, the active target
    calls,         \* the backend calls issued so far, in the order of issue
    reqs           \* the inbound requests, in the order their handlers started

gatewayVars == <<ollamaEndpoint, calls, reqs>>

configVars == <<env, configs, lookup, gatewayVars>>

vars == <<handler, pc, hasEnded, writes, endCalls, clientClosed, stream,
          received, terminal, lateWrite, closedError, models, outcome, detail, backend,
          response, configVars>>

relayVars == <<hasEnded, writes, endCalls, clientClosed, stream, received,
               terminal, lateWrite, closedError, configVars>>
batchVars == <<models, outcome, detail, backend, response, configVars>>

----------------------------------------------------------------------------
(* Bounds *)

MaxStreamLen == 4   \* most characters one backend stream carries, over all its chunks
MaxModels == 3      \* longest model list of a batch delete or a listing
MaxConfigLen == 7   \* longest OLLAMA_ENDPOINTS value, in characters
MaxRequests == 3    \* most inbound requests of one gateway behaviour

----------------------------------------------------------------------------
(* Text *)

NL == "\n"
SP == " "
Chars == {"{", "}", "1", SP, NL}

RECURSIVE SeqsUpTo(_, _)
SeqsUpTo(S, n) ==
    IF n = 0 THEN {<< >>}
    ELSE LET shorter == SeqsUpTo(S, n - 1)
         IN  shorter \cup {Append(s, x) : s \in {t \in shorter : Len(t) = n - 1}, x \in S}

\* A 'data' event carries a non-empty Buffer.
Chunks == SeqsUpTo(Chars, MaxStreamLen) \ {<< >>}

\* The chunks of at most n characters.
ChunksWithin == [n \in 0..MaxStreamLen |-> {c \in Chunks : Len(c) <= n}]

ErrorMessages == {"ECONNREFUSED", "aborted"}

\* String.prototype.split('\n'): the pieces between the newlines, at least one.
RECURSIVE Split(_)
Split(s) ==
    IF \A i \in 1..Len(s) : s[i] # NL THEN <<s>>
    ELSE LET k == CHOOSE i \in 1..Len(s) : s[i] = NL /\ \A j \in 1..(i - 1) : s[j] # NL
         IN  <<SubSeq(s, 1, k - 1)>> \o Split(SubSeq(s, k + 1, Len(s)))

IsSpace(c) == c = SP \/ c = NL

\* String.prototype.trim(): strip the white space of both ends.
RECURSIVE TrimLeft(_)
TrimLeft(s) ==
    IF s # << >> /\ IsSpace(Head(s)) THEN TrimLeft(Tail(s)) ELSE s

RECURSIVE TrimRight(_)
TrimRight(s) ==
    IF s # << >> /\ IsSpace(s[Len(s)]) THEN TrimRight(SubSeq(s, 1, Len(s) - 1)) ELSE s

Trim(s) == TrimRight(TrimLeft(s))

\* Mutant of JSONParses: an object that is not closed is accepted.
JSONParsesUnclosed(line) ==
    LET t == Trim(line)
    IN  /\ t # << >>
        /\ \/ \A i \in 1..Len(t) : t[i] = "1"
           \/ /\ t[1] = "{"
              /\ \A i \in 2..Len(t) : t[i] \in {SP, "}"}

\* JSON.parse(line) does not throw.  Over Chars the JSON texts are
\*   ws* ( "1"+ | "{" ws* "}" ) ws*
\* (a number, or the empty object), JSON white space being the space here.
JSONParses(line) ==
    LET t == Trim(line)
    IN  /\ t # << >>
        /\ \/ \A i \in 1..Len(t) : t[i] = "1"
           \/ /\ Len(t) >= 2
              /\ t[1] = "{"
              /\ t[Len(t)] = "}"
              /\ \A i \in 2..(Len(t) - 1) : t[i] = SP

----------------------------------------------------------------------------
(* The endpoint registry: getEndpointConfigs, getEndpoints, getApiKeyFor,
   server.js:68-89 *)

\* The characters of a configuration: two letters, the in-entry separator,
\* the entry delimiter and white space.
ConfigChars == {"a", "k", "_", ",", SP}

\* JavaScript's null.
Null == <<"null">>

\* 'http://localhost:11434', the default of server.js:64 and server.js:69.
DefaultUrl == <<"h">>

\* String.prototype.split(sep) for a one-character separator.
RECURSIVE SplitBy(_, _)
SplitBy(s, sep) ==
    IF \A i \in 1..Len(s) : s[i] # sep THEN <<s>>
    ELSE LET k == CHOOSE i \in 1..Len(s) : s[i] = sep /\ \A j \in 1..(i - 1) : s[j] # sep
         IN  <<SubSeq(s, 1, k - 1)>> \o SplitBy(SubSeq(s, k + 1, Len(s)), sep)

\* String.prototype.indexOf(c): the 0-based position of the first c, or -1.
IndexOf(s, c) ==
    IF \A i \in 1..Len(s) : s[i] # c THEN -1
    ELSE (CHOOSE i \in 1..Len(s) : s[i] = c /\ \A j \in 1..(i - 1) : s[j] # c) - 1

\* .map(s => s.trim()).filter(Boolean)
RECURSIVE TrimmedNonEmpty(_)
TrimmedNonEmpty(items) ==
    IF items = << >> THEN << >>
    ELSE (IF Trim(Head(items)) # << >> THEN <<Trim(Head(items))>> ELSE << >>)
         \o TrimmedNonEmpty(Tail(items))

\* The callback of the last .map of getEndpointConfigs, server.js:74-80.
ParseEntry(item) ==
    LET idx == IndexOf(item, "_")
    IN  IF idx = -1 THEN [url |-> item, apiKey |-> Null]
        ELSE LET url == Trim(SubSeq(item, 1, idx))
                 rest == Trim(SubSeq(item, idx + 2, Len(item)))
             IN  [url |-> url, apiKey |-> IF rest = << >> THEN Null ELSE rest]

\* getEndpointConfigs(), server.js:68-81, for the value raw of the
\* environment variable (the empty sequence when it is unset or empty).
GetEndpointConfigs(raw) ==
    LET items == TrimmedNonEmpty(SplitBy(IF raw = << >> THEN DefaultUrl ELSE raw, ","))
    IN  [i \in 1..Len(items) |-> ParseEntry(items[i])]

\* getEndpoints(), server.js:84.
GetEndpoints(raw) ==
    LET cs == GetEndpointConfigs(raw) IN [i \in 1..Len(cs) |-> cs[i].url]

\* Mutant of FindByUrl: the last entry with the url is found.
RECURSIVE FindByUrlLast(_, _)
FindByUrlLast(cs, url) ==
    IF cs = << >> THEN Null
    ELSE IF cs[Len(cs)].url = url THEN cs[Len(cs)].apiKey
         ELSE FindByUrlLast(SubSeq(cs, 1, Len(cs) - 1), url)

\* getEndpointConfigs().find(c => c.url === url) followed by ?.apiKey || null.
RECURSIVE FindByUrl(_, _)
FindByUrl(cs, url) ==
    IF cs = << >> THEN Null
    ELSE IF Head(cs).url = url THEN Head(cs).apiKey
         ELSE FindByUrl(Tail(cs), url)

\* getApiKeyFor(url), server.js:86-89.
GetApiKeyFor(raw, url) == FindByUrl(GetEndpointConfigs(raw), url)

NoLookup == [url |-> Null, apiKey |-> Null]

\* No request has been received: the active target is the default.
GatewayIdle == ollamaEndpoint = DefaultUrl /\ calls = << >> /\ reqs = << >>

\* No configuration call has been made; the environment variable is unset.
ConfigIdle == env = << >> /\ configs = << >> /\ lookup = NoLookup /\ GatewayIdle

----------------------------------------------------------------------------
(* The relay: handleModelOperation, server.js:224-287 *)

\* What res.write is given: a forwarded line, or the error record
\* JSON.stringify({status:'error', error: error.message}) + '\n'.
Forwarded(line) == [kind |-> "record", text |-> line \o <<NL>>]
ErrorRecord(msg) == [kind |-> "error", text |-> <<msg, NL>>]

NoError == "no-error"

\* A terminal event of the relay has occurred: the client has disconnected,
\* or the backend stream has ended or failed.
TerminalEventSeen == clientClosed \/ stream \in {"ended", "errored"}

\* Mutant of ForwardLines: a line that fails to parse stops the forwarding of
\* the rest of its chunk.
RECURSIVE ForwardLinesStopAtInvalid(_, _)
ForwardLinesStopAtInvalid(lines, out) ==
    IF lines = << >> THEN out
    ELSE LET line == Head(lines)
         IN  IF Trim(line) = << >> THEN ForwardLinesStopAtInvalid(Tail(lines), out)
             ELSE IF JSONParses(line)
                  THEN ForwardLinesStopAtInvalid(Tail(lines), Append(out, Forwarded(line)))
                  ELSE out

\* Mutant of ForwardLines: the lines of a chunk are forwarded last line first.
RECURSIVE ForwardLinesLastFirst(_, _)
ForwardLinesLastFirst(lines, out) ==
    IF lines = << >> THEN out
    ELSE LET line == lines[Len(lines)]
         IN  ForwardLinesLastFirst(SubSeq(lines, 1, Len(lines) - 1),
                 IF Trim(line) # << >> /\ JSONParses(line)
                 THEN Append(out, Forwarded(line))
                 ELSE out)

\* lines.forEach(line => { if (line.trim()) { try { JSON.parse(line);
\* res.write(line + '\n') } catch { console.error(...) } } })
RECURSIVE ForwardLines(_, _)
ForwardLines(lines, out) ==
    IF lines = << >> THEN out
    ELSE LET line == Head(lines)
         IN  ForwardLines(Tail(lines),
                 IF Trim(line) # << >> /\ JSONParses(line)
                 THEN Append(out, Forwarded(line))
                 ELSE out)

\* Mutant of EndResponse: the hasEnded guard is missing.
EndResponseUnguarded(error, trigger) ==
    /\ hasEnded' = TRUE
    /\ writes' = IF error # NoError THEN Append(writes, ErrorRecord(error)) ELSE writes
    /\ endCalls' = endCalls + 1
    /\ terminal' = IF hasEnded THEN terminal
                   ELSE [trigger |-> trigger, clientClosed |-> clientClosed]
    /\ closedError' = (closedError \/ (error # NoError /\ clientClosed))

\* Mutant of EndResponse: the error record is not written.
EndResponseSilent(error, trigger) ==
    IF ~hasEnded
    THEN /\ hasEnded' = TRUE
         /\ endCalls' = endCalls + 1
         /\ terminal' = [trigger |-> trigger, clientClosed |-> clientClosed]
         /\ UNCHANGED <<writes, closedError>>
    ELSE UNCHANGED <<hasEnded, writes, endCalls, terminal, closedError>>

\* Mutant of EndResponse: a record is written whether or not an error is given.
EndResponseAlwaysRecord(error, trigger) ==
    IF ~hasEnded
    THEN /\ hasEnded' = TRUE
         /\ writes' = Append(writes, ErrorRecord(error))
         /\ endCalls' = endCalls + 1
         /\ terminal' = [trigger |-> trigger, clientClosed |-> clientClosed]
         /\ closedError' = (closedError \/ clientClosed)
    ELSE UNCHANGED <<hasEnded, writes, endCalls, terminal, closedError>>

\* endResponse(error), server.js:229-240; trigger names the caller.
EndResponse(error, trigger) ==
    IF ~hasEnded
    THEN /\ hasEnded' = TRUE
         /\ writes' = IF error # NoError THEN Append(writes, ErrorRecord(error)) ELSE writes
         /\ endCalls' = endCalls + 1
         /\ terminal' = [trigger |-> trigger, clientClosed |-> clientClosed]
         /\ closedError' = (closedError \/ (error # NoError /\ clientClosed))
    ELSE UNCHANGED <<hasEnded, writes, endCalls, terminal, closedError>>

NoTerminal == [trigger |-> "none", clientClosed |-> FALSE]

InitRelay ==
    /\ handler = "relay"
    /\ pc = "started"           \* headers set, hasEnded = false, axios POST pending
    /\ hasEnded = FALSE
    /\ writes = << >>
    /\ endCalls = 0
    /\ clientClosed = FALSE
    /\ stream = "none"
    /\ received = << >>
    /\ terminal = NoTerminal
    /\ lateWrite = FALSE
    /\ closedError = FALSE
    /\ ConfigIdle

\* req emits 'close'.  On this runtime (Node 16 and later) IncomingMessage
\* emits 'close' once, when the request has been read completely, whether or
\* not the client stays connected: express.json() has read the body before
\* the handler runs, so the event is emitted while the handler still awaits
\* axios, and the listener of server.js:281, registered after the await, is
\* never called.
OnReqClose ==
    /\ handler = "relay" /\ pc = "started"
    /\ pc' = "awaiting"
    /\ UNCHANGED <<handler, hasEnded, writes, endCalls, clientClosed, stream, received,
                   terminal, lateWrite, closedError>>
    /\ UNCHANGED batchVars

\* The awaited axios call rejects: catch (error) { endResponse(error) }.
StartFails ==
    /\ handler = "relay" /\ pc = "awaiting"
    /\ \E msg \in ErrorMessages : EndResponse(msg, "start")
    /\ pc' = "returned"
    /\ UNCHANGED <<handler, clientClosed, stream, received, lateWrite>>
    /\ UNCHANGED batchVars

\* The awaited axios call resolves: the four listeners are registered.
StartSucceeds ==
    /\ handler = "relay" /\ pc = "awaiting"
    /\ pc' = "listening"
    /\ stream' = "open"
    /\ UNCHANGED <<handler, hasEnded, writes, endCalls, clientClosed, received,
                   terminal, lateWrite, closedError>>
    /\ UNCHANGED batchVars

RECURSIVE TotalLen(_)
TotalLen(chunks) ==
    IF chunks = << >> THEN 0 ELSE Len(Head(chunks)) + TotalLen(Tail(chunks))

\* response.data 'data' with a chunk that decodes, server.js:256-268.
OnData(chunk) ==
    /\ handler = "relay" /\ pc = "listening" /\ stream = "open"
    /\ TotalLen(received) + Len(chunk) <= MaxStreamLen
    /\ received' = Append(received, chunk)
    /\ writes' = ForwardLines(Split(chunk), writes)
    /\ lateWrite' = (lateWrite \/ (TerminalEventSeen /\ writes' # writes))
    /\ UNCHANGED <<handler, pc, hasEnded, endCalls, clientClosed, stream,
                   terminal, closedError>>
    /\ UNCHANGED batchVars

\* response.data 'data' with a chunk whose decoding throws, server.js:269-272.
OnDataThrows ==
    /\ handler = "relay" /\ pc = "listening" /\ stream = "open"
    /\ \E msg \in ErrorMessages : EndResponse(msg, "chunk")
    /\ UNCHANGED <<handler, pc, clientClosed, stream, received, lateWrite>>
    /\ UNCHANGED batchVars

\* Mutant of OnEnd: the 'end' listener does not call endResponse.
OnEndForgotten ==
    /\ handler = "relay" /\ pc = "listening" /\ stream = "open"
    /\ stream' = "ended"
    /\ UNCHANGED <<handler, pc, hasEnded, writes, endCalls, terminal, closedError,
                   clientClosed, received, lateWrite>>
    /\ UNCHANGED batchVars

\* response.data 'end', server.js:275.
OnEnd ==
    /\ handler = "relay" /\ pc = "listening" /\ stream = "open"
    /\ EndResponse(NoError, "end")
    /\ stream' = "ended"
    /\ UNCHANGED <<handler, pc, clientClosed, received, lateWrite>>
    /\ UNCHANGED batchVars

\* response.data 'error', server.js:276-279.
OnError ==
    /\ handler = "relay" /\ pc = "listening" /\ stream = "open"
    /\ \E msg \in ErrorMessages : EndResponse(msg, "error")
    /\ stream' = "errored"
    /\ UNCHANGED <<handler, pc, clientClosed, received, lateWrite>>
    /\ UNCHANGED batchVars

\* The client disconnects.  Nothing of the relay listens to the socket or to
\* res: the only 'close' listener is the one on req (server.js:281), and req
\* has emitted its 'close' before that listener is registered (OnReqClose).
\* The relay goes on as if the client were there.
OnClientClose ==
    /\ handler = "relay" /\ ~clientClosed
    /\ clientClosed' = TRUE
    /\ UNCHANGED <<handler, pc, hasEnded, writes, endCalls, stream, received, terminal,
                   lateWrite, closedError>>
    /\ UNCHANGED batchVars

NextRelay ==
    \/ OnReqClose
    \/ StartFails
    \/ StartSucceeds
    \/ \E chunk \in ChunksWithin[MaxStreamLen - TotalLen(received)] : OnData(chunk)
    \/ OnDataThrows
    \/ OnEnd
    \/ OnError
    \/ OnClientClose

Init ==
    /\ InitRelay
    /\ models = [array |-> FALSE, items |-> << >>]
    /\ outcome = << >> /\ detail = << >>
    /\ backend = {} /\ response = [status |-> 0]

Spec == Init /\ [][NextRelay]_vars

\* The relay when the backend answers: req, read completely, emits 'close',
\* the awaited POST settles, and the stream of a POST that resolved emits
\* 'end' or 'error'.
SpecLive ==
    /\ Init
    /\ [][NextRelay]_vars
    /\ WF_vars(OnReqClose)
    /\ WF_vars(StartFails \/ StartSucceeds)
    /\ WF_vars(OnEnd \/ OnError)

----------------------------------------------------------------------------
(* Properties of the relay *)

Last(s) == s[Len(s)]

\* The lines of a chunk that are JSON texts, in line order.
ValidLines(chunk) == SelectSeq(Split(chunk), LAMBDA l : JSONParses(l))

\* A chunk has a non-blank line that is no JSON text.
HasInvalidLine(chunk) ==
    \E i \in 1..Len(Split(chunk)) :
        Trim(Split(chunk)[i]) # << >> /\ ~JSONParses(Split(chunk)[i])

\* The records a sequence of chunks should be forwarded as.
RECURSIVE ExpectedRecords(_)
ExpectedRecords(chunks) ==
    IF chunks = << >> THEN << >>
    ELSE LET lines == ValidLines(Head(chunks))
         IN  [i \in 1..Len(lines) |-> Forwarded(lines[i])] \o ExpectedRecords(Tail(chunks))

ForwardedRecords == SelectSeq(writes, LAMBDA w : w.kind = "record")
ErrorRecords == SelectSeq(writes, LAMBDA w : w.kind = "error")

\* C1: whatever termination triggers fire (start failure, backend 'end',
\* backend 'error', client 'close', chunk-processing exception) and in
\* whatever order, res.end is called at most once.
C1_EndedAtMostOnce == endCalls <= 1

\* Three triggers have fired on one relay: a chunk-processing exception, the
\* client's close and the backend's error.
C1_Witness ==
    /\ terminal.trigger = "chunk"
    /\ clientClosed
    /\ stream = "errored"
    /\ endCalls = 1

\* C2: once a terminal event has occurred (backend end, backend error, client
\* disconnect) nothing more is written to the client: no record of a backend
\* chunk is forwarded after it.
C2_NoWriteAfterTerminalEvent == ~lateWrite

\* C3: when the relay fails with the client connection already closed, no
\* error record is written.
C3_NoErrorRecordAfterClientClose == ~closedError

\* C4: when the start of the relay fails, or the backend stream raises an
\* error while the relay is streaming, with the client still connected, exactly
\* one error record is written, it is the last write, and the response is
\* ended exactly once.
C4_OneErrorRecordThenEnd ==
    (terminal.trigger \in {"start", "error"} /\ ~terminal.clientClosed) =>
        /\ Len(ErrorRecords) = 1
        /\ writes # << >>
        /\ Last(writes).kind = "error"
        /\ \E msg \in ErrorMessages : Last(writes) = ErrorRecord(msg)
        /\ endCalls = 1

\* The backend stream failed after a record had been forwarded, the client
\* being connected.
C4_Witness ==
    /\ terminal = [trigger |-> "error", clientClosed |-> FALSE]
    /\ Len(writes) >= 2
    /\ stream = "errored"

\* C5: when the backend signals end-of-stream on a relay that is streaming,
\* the response is ended and no error record is ever written: every write of
\* the relay is a forwarded record.
C5_EndWithoutErrorRecord ==
    terminal.trigger = "end" =>
        /\ endCalls = 1
        /\ ErrorRecords = << >>
        /\ \A i \in 1..Len(writes) : writes[i].kind = "record"

\* The backend stream ended after a record had been forwarded.
C5_Witness ==
    /\ terminal.trigger = "end"
    /\ stream = "ended"
    /\ writes # << >>

\* C6: a chunk with a line that is no valid JSON forwards exactly its valid
\* lines (the ones after the invalid line too) and leaves the relay as it
\* was: hasEnded, the number of res.end calls and the terminal trigger are
\* unchanged and no error record is written.
C6_InvalidLineDroppedNotFatal ==
    [][(received' # received /\ HasInvalidLine(Last(received'))) =>
          /\ hasEnded' = hasEnded
          /\ endCalls' = endCalls
          /\ terminal' = terminal
          /\ writes' = writes \o ExpectedRecords(<<Last(received')>>)]_vars

\* A chunk with an invalid line followed by a valid one has arrived on a
\* relay that is still streaming after it, and the valid line was forwarded.
C6_Witness ==
    /\ received # << >>
    /\ Last(received) = <<"{", NL, "1">>
    /\ pc = "listening" /\ stream = "open" /\ ~hasEnded /\ endCalls = 0
    /\ writes # << >>
    /\ Last(writes) = Forwarded(<<"1">>)

\* C7: the records written to the client are exactly the valid-JSON lines of
\* the backend chunks, in chunk order and in line order inside each chunk,
\* each once.
C7_RecordsAreValidLinesInOrder == ForwardedRecords = ExpectedRecords(received)

\* Two chunks have arrived, each with a valid line, the two lines different,
\* and both were written.
C7_Witness ==
    /\ Len(received) = 2
    /\ Len(ValidLines(received[1])) = 1
    /\ Len(ValidLines(received[2])) = 1
    /\ Len(ForwardedRecords) = 2
    /\ ForwardedRecords[1] # ForwardedRecords[2]

\* C15: a client disconnect is observed in every relay state, INIT included:
\* once the client has closed, the relay has torn down (endResponse has run),
\* so that nothing that arrives later is forwarded.
C15_CloseObservedInEveryState == clientClosed => hasEnded

\* The text t is a JSON object.
IsObjectText(t) == JSONParses(t) /\ Trim(t)[1] = "{"

AllButLast(s) == SubSeq(s, 1, Len(s) - 1)

\* The records the valid ones of some lines are forwarded as.
RecordsOfLines(lines) ==
    LET valid == SelectSeq(lines, LAMBDA l : JSONParses(l))
    IN  [i \in 1..Len(valid) |-> Forwarded(valid[i])]

\* A record that is a JSON object is split across chunks i and i + 1: chunk i
\* ends with one part of its text and chunk i + 1 starts with the rest.
SplitAcross(i) ==
    LET before == Last(Split(received[i]))
        after == Head(Split(received[i + 1]))
    IN  /\ Trim(before) # << >>
        /\ Trim(after) # << >>
        /\ IsObjectText(before \o after)

\* What is forwarded when neither part of the record split across chunks i
\* and i + 1 is, and every other valid line is.
ForwardedWithout(i) ==
    ExpectedRecords(SubSeq(received, 1, i - 1))
        \o RecordsOfLines(AllButLast(Split(received[i])))
        \o RecordsOfLines(Tail(Split(received[i + 1])))
        \o ExpectedRecords(SubSeq(received, i + 2, Len(received)))

\* C16: a record (a JSON object) whose text is split across two consecutive
\* chunks is lost: neither part is forwarded and the parts are not put
\* together, while the lines that lie within one chunk are forwarded; and the
\* arrival of a chunk neither ends the response nor sets hasEnded.
C16_SplitRecordLost ==
    /\ [](\A i \in 1..(Len(received) - 1) :
             SplitAcross(i) => ForwardedRecords = ForwardedWithout(i))
    /\ [][received' # received =>
             hasEnded' = hasEnded /\ endCalls' = endCalls /\ stream' = stream]_vars

\* The chunks '1\n{' and '}' have arrived: the line 1 was forwarded, the
\* object was not, and the relay is still streaming.
C16_Witness ==
    /\ received = <<<<"1", NL, "{">>, <<"}">>>>
    /\ SplitAcross(1)
    /\ writes = <<Forwarded(<<"1">>)>>
    /\ pc = "listening" /\ stream = "open" /\ ~hasEnded /\ endCalls = 0

\* C19: when the initiating backend call settles and the stream of a call
\* that resolved emits 'end' or 'error', the client response is eventually
\* ended, whatever the client does.
C19_EventuallyEnded == <>(endCalls = 1)

\* The response was ended by the backend's 'end', the client having
\* disconnected before it.
C19_Witness ==
    /\ endCalls = 1
    /\ terminal = [trigger |-> "end", clientClosed |-> TRUE]
    /\ stream = "ended"

----------------------------------------------------------------------------
(* Batch delete: app.delete('/api/models'), server.js:189-221 *)

ModelNames == {<<"a">>, <<"a", "b">>, <<"b">>}

\* A value that should be an array of models: items when it is one; when it
\* is not (undefined, a string, ...), .map on it throws.
List(items) == [array |-> TRUE, items |-> items]
NoList == [array |-> FALSE, items |-> << >>]

NoResponse == [status |-> 0]

RelayIdle ==
    /\ hasEnded = FALSE /\ writes = << >> /\ endCalls = 0 /\ clientClosed = FALSE
    /\ stream = "none" /\ received = << >> /\ terminal = NoTerminal
    /\ lateWrite = FALSE /\ closedError = FALSE
    /\ ConfigIdle

InitDelete ==
    /\ handler = "delete"
    /\ pc = "start"
    /\ models \in {List(l) : l \in SeqsUpTo(ModelNames, MaxModels)} \cup {NoList}
    /\ outcome = << >>
    /\ detail = << >>
    /\ backend = ModelNames
    /\ response = NoResponse
    /\ RelayIdle

\* results.filter(r => r.status === 'rejected'): the rejected results, in order.
RECURSIVE Rejected(_)
Rejected(results) ==
    IF results = << >> THEN << >>
    ELSE IF Head(results) = "fail" THEN <<Head(results)>> \o Rejected(Tail(results))
         ELSE Rejected(Tail(results))

\* Mutant of FailedNames: no result counts as rejected.
FailedNamesNone(results, list) == << >>

\* .map((r, i) => models[i]): i is the index in the filtered array.
\* models[i] past the end of models is undefined; it cannot happen here, the
\* filtered array being no longer than models.
FailedNames(results, list) ==
    [i \in 1..Len(Rejected(results)) |-> list[i]]

\* models.map(model => axios.delete(...)): every sub-call is issued before
\* any of them settles; a models that is no array throws into the catch.
DeleteIssue ==
    /\ handler = "delete" /\ pc = "start"
    /\ IF ~models.array
       THEN /\ pc' = "done"
            /\ response' = [status |-> 500, success |-> FALSE,
                            message |-> "Failed to process delete request"]
            /\ UNCHANGED outcome
       ELSE /\ pc' = "settling"
            /\ outcome' = [i \in 1..Len(models.items) |-> "pending"]
            /\ UNCHANGED response
    /\ UNCHANGED <<handler, models, detail, backend>>
    /\ UNCHANGED relayVars

\* One delete sub-call settles; the backend removes the model when it succeeds.
DeleteSettle(i, ok) ==
    /\ handler = "delete" /\ pc = "settling"
    /\ i \in DOMAIN outcome /\ outcome[i] = "pending"
    /\ outcome' = [outcome EXCEPT ![i] = IF ok THEN "ok" ELSE "fail"]
    /\ backend' = IF ok THEN backend \ {models.items[i]} ELSE backend
    /\ UNCHANGED <<handler, pc, models, detail, response>>
    /\ UNCHANGED relayVars

\* Promise.allSettled resolves: server.js:202-213.
DeleteRespond ==
    /\ handler = "delete" /\ pc = "settling"
    /\ \A i \in DOMAIN outcome : outcome[i] # "pending"
    /\ LET failed == FailedNames(outcome, models.items)
       IN  response' = IF Len(failed) > 0
                       THEN [status |-> 500, success |-> FALSE,
                             message |-> "Failed to delete models", names |-> failed]
                       ELSE [status |-> 200, success |-> TRUE,
                             message |-> "Models deleted successfully"]
    /\ pc' = "done"
    /\ UNCHANGED <<handler, models, outcome, detail, backend>>
    /\ UNCHANGED relayVars

NextDelete ==
    \/ DeleteIssue
    \/ \E i \in 1..MaxModels, ok \in BOOLEAN : DeleteSettle(i, ok)
    \/ DeleteRespond

SpecDelete == InitDelete /\ [][NextDelete]_vars

----------------------------------------------------------------------------
(* Properties of the batch delete *)

\* The requested names whose own sub-call failed, in request order.
RECURSIVE NamesThatFailed(_, _)
NamesThatFailed(results, list) ==
    IF results = << >> THEN << >>
    ELSE (IF Head(results) = "fail" THEN <<Head(list)>> ELSE << >>)
         \o NamesThatFailed(Tail(results), Tail(list))

DeleteAnswered == handler = "delete" /\ pc = "done" /\ models.array

\* C8: the names the 500 answer of a batch delete reports as failed are
\* exactly the names whose own sub-call failed.
C8_ReportedNamesAreTheFailedOnes ==
    (DeleteAnswered /\ response.status = 500) =>
        response.names = NamesThatFailed(outcome, models.items)

\* C9: a batch delete issues one sub-call per requested model whatever the
\* outcome of the others, a successful deletion stays done, and the answer is
\* 200 with success if every sub-call succeeded and 500 otherwise.
C9_AllIssuedAnswerIffAllSucceeded ==
    (handler = "delete" /\ pc \in {"settling", "done"} /\ models.array) =>
        /\ DOMAIN outcome = 1..Len(models.items)
        /\ \A i \in DOMAIN outcome : outcome[i] # "none"
        /\ \A i \in DOMAIN outcome : outcome[i] = "ok" => models.items[i] \notin backend
        /\ pc = "done" =>
              /\ \A i \in DOMAIN outcome : outcome[i] \in {"ok", "fail"}
              /\ IF \A i \in DOMAIN outcome : outcome[i] = "ok"
                 THEN response.status = 200 /\ response.success
                 ELSE response.status = 500 /\ ~response.success

\* Three models were requested, the second deletion failed, the other two
\* were carried out and the answer is 500.
C9_Witness ==
    /\ DeleteAnswered
    /\ models.items = <<<<"a">>, <<"a", "b">>, <<"b">>>>
    /\ outcome = <<"ok", "fail", "ok">>
    /\ backend = {<<"a", "b">>}
    /\ response.status = 500

----------------------------------------------------------------------------
(* Listing: app.get('/api/models'), server.js:137-186 *)

Undefined == "undefined"

\* The optional details field of a JSON object.
NoDetails == [present |-> FALSE, format |-> Undefined, family |-> Undefined]
Details(format, family) == [present |-> TRUE, format |-> format, family |-> family]

\* The entries GET /api/tags may list: a name, and details or not.
ListedModels ==
    {[name |-> n, details |-> d] : n \in ModelNames,
                                   d \in {NoDetails, Details("gguf", "listed")}}

\* The data of a successful POST /api/show: without details, or with details
\* that have one field and lack another.
DetailBodies == {NoDetails, Details("gguf", Undefined)}

\* x || '' for a string or undefined x.
OrEmpty(x) == IF x = Undefined \/ x = "" THEN "" ELSE x

\* { ...model, details: { format: data.details?.format || '', ... } },
\* server.js:157-167 (each of the six fields is built the same way).
Enriched(model, body) ==
    [model EXCEPT !.details = Details(OrEmpty(body.format), OrEmpty(body.family))]

\* Mutant of DetailResult: a failed detail call yields an empty details object.
DetailResultAlwaysDetails(model, result, body) ==
    IF result = "ok" THEN Enriched(model, body) ELSE Enriched(model, NoDetails)

\* What the async callback of server.js:147-172 resolves to.
DetailResult(model, result, body) ==
    IF result = "ok" THEN Enriched(model, body) ELSE model

CharRank(c) == IF c = "a" THEN 1 ELSE 2

\* a.localeCompare(b) for names of lower-case letters: -1, 0 or 1.
RECURSIVE LocaleCompare(_, _)
LocaleCompare(a, b) ==
    IF a = << >> /\ b = << >> THEN 0
    ELSE IF a = << >> THEN -1
    ELSE IF b = << >> THEN 1
    ELSE IF CharRank(Head(a)) < CharRank(Head(b)) THEN -1
    ELSE IF CharRank(Head(a)) > CharRank(Head(b)) THEN 1
    ELSE LocaleCompare(Tail(a), Tail(b))

\* Insert x after the entries that do not compare greater than it.
RECURSIVE InsertSorted(_, _)
InsertSorted(x, sorted) ==
    IF sorted = << >> THEN <<x>>
    ELSE IF LocaleCompare(Head(sorted).name, x.name) <= 0
         THEN <<Head(sorted)>> \o InsertSorted(x, Tail(sorted))
         ELSE <<x>> \o sorted

\* Array.prototype.sort((a, b) => a.name.localeCompare(b.name)): stable.
RECURSIVE SortByName(_)
SortByName(list) ==
    IF list = << >> THEN << >>
    ELSE InsertSorted(list[Len(list)], SortByName(SubSeq(list, 1, Len(list) - 1)))

InitModels ==
    /\ handler = "models"
    /\ pc = "listing"           \* GET /api/tags pending
    /\ models = NoList
    /\ outcome = << >>
    /\ detail = << >>
    /\ backend = {}
    /\ response = NoResponse
    /\ RelayIdle

FetchFailed == [status |-> 500, success |-> FALSE, message |-> "Failed to fetch models"]

\* GET /api/tags rejects: the outer catch.
ListFails ==
    /\ handler = "models" /\ pc = "listing"
    /\ response' = FetchFailed
    /\ pc' = "done"
    /\ UNCHANGED <<handler, models, outcome, detail, backend>>
    /\ UNCHANGED relayVars

\* GET /api/tags resolves; response.data.models.map issues one detail
\* sub-call per entry, or throws into the outer catch when it is no array.
ListSucceeds(list) ==
    /\ handler = "models" /\ pc = "listing"
    /\ models' = list
    /\ IF list.array
       THEN /\ outcome' = [i \in 1..Len(list.items) |-> "pending"]
            /\ detail' = [i \in 1..Len(list.items) |-> NoDetails]
            /\ pc' = "enriching"
            /\ UNCHANGED response
       ELSE /\ response' = FetchFailed
            /\ pc' = "done"
            /\ UNCHANGED <<outcome, detail>>
    /\ UNCHANGED <<handler, backend>>
    /\ UNCHANGED relayVars

\* One POST /api/show settles: resolved with body, or rejected.
DetailSettle(i, ok, body) ==
    /\ handler = "models" /\ pc = "enriching"
    /\ i \in DOMAIN outcome /\ outcome[i] = "pending"
    /\ outcome' = [outcome EXCEPT ![i] = IF ok THEN "ok" ELSE "fail"]
    /\ detail' = [detail EXCEPT ![i] = IF ok THEN body ELSE NoDetails]
    /\ UNCHANGED <<handler, pc, models, backend, response>>
    /\ UNCHANGED relayVars

\* Promise.all resolves: sort and answer, server.js:175-178.
ModelsRespond ==
    /\ handler = "models" /\ pc = "enriching"
    /\ \A i \in DOMAIN outcome : outcome[i] # "pending"
    /\ LET modelsWithDetails ==
               [i \in DOMAIN outcome |-> DetailResult(models.items[i], outcome[i], detail[i])]
       IN  response' = [status |-> 200, body |-> SortByName(modelsWithDetails)]
    /\ pc' = "done"
    /\ UNCHANGED <<handler, models, outcome, detail, backend>>
    /\ UNCHANGED relayVars

NextModels ==
    \/ ListFails
    \/ \E l \in SeqsUpTo(ListedModels, MaxModels) : ListSucceeds(List(l))
    \/ ListSucceeds(NoList)
    \/ \E i \in 1..MaxModels, body \in DetailBodies : DetailSettle(i, TRUE, body)
    \/ \E i \in 1..MaxModels : DetailSettle(i, FALSE, NoDetails)
    \/ ModelsRespond

SpecModels == InitModels /\ [][NextModels]_vars

----------------------------------------------------------------------------
(* Properties of the listing *)

ListingAnswered == handler = "models" /\ pc = "done" /\ models.array

SortedByName(list) ==
    \A i \in 1..(Len(list) - 1) : LocaleCompare(list[i].name, list[i + 1].name) <= 0

Count(S) == Cardinality(S)

\* Entry b of the answer is what entry i of the listing had to become: with
\* the same name; when its detail call succeeded, with a details object whose
\* fields are all strings; when it failed, the listed entry unchanged.
Answers(b, i) ==
    /\ b.name = models.items[i].name
    /\ outcome[i] = "ok" =>
          /\ b.details.present
          /\ b.details.format # Undefined
          /\ b.details.family # Undefined
    /\ outcome[i] = "fail" => b = models.items[i]

\* C10 as stated: for a listing of N models of which K detail calls fail, the
\* answer is 200 with N models, exactly the N-K whose detail call succeeded
\* carry a details field, sorted ascending by name.
C10_OnlyEnrichedCarryDetails ==
    ListingAnswered =>
        /\ response.status = 200
        /\ Len(response.body) = Len(models.items)
        /\ Count({j \in 1..Len(response.body) : response.body[j].details.present})
              = Count({i \in DOMAIN outcome : outcome[i] = "ok"})
        /\ SortedByName(response.body)

\* C10, amended: for a listing of N models of which K detail calls fail, the
\* answer is 200 with N models sorted ascending by name; the N-K whose detail
\* call succeeded carry a details object built from the detail answer, the K
\* others are the listed entries unchanged (with the details field the
\* listing gave them, if any).
C10_FailedEntriesUnchanged ==
    ListingAnswered =>
        /\ response.status = 200
        /\ Len(response.body) = Len(models.items)
        /\ SortedByName(response.body)
        /\ \E p \in Permutations(1..Len(models.items)) :
              \A i \in 1..Len(models.items) : Answers(response.body[p[i]], i)

\* Three models were listed, one detail call failed and one succeeded, and
\* sorting moved the first listed model.
C10_Witness ==
    /\ ListingAnswered
    /\ Len(models.items) = 3
    /\ \E i \in 1..3 : outcome[i] = "fail"
    /\ \E i \in 1..3 : outcome[i] = "ok"
    /\ response.body[1].name # models.items[1].name

----------------------------------------------------------------------------
(* The endpoint registry on every configuration *)

BatchIdle ==
    /\ models = NoList /\ outcome = << >> /\ detail = << >>
    /\ backend = {} /\ response = NoResponse

\* The urls getApiKeyFor is asked for.
LookupUrls == {<<"a">>, <<"k">>}

InitConfig ==
    /\ handler = "config"
    /\ pc = "start"
    /\ env \in SeqsUpTo(ConfigChars, MaxConfigLen)
    /\ configs = << >>
    /\ lookup = NoLookup
    /\ GatewayIdle
    /\ hasEnded = FALSE /\ writes = << >> /\ endCalls = 0 /\ clientClosed = FALSE
    /\ stream = "none" /\ received = << >> /\ terminal = NoTerminal
    /\ lateWrite = FALSE /\ closedError = FALSE
    /\ BatchIdle

\* A call of getEndpointConfigs().
CallGetEndpointConfigs ==
    /\ handler = "config" /\ pc = "start"
    /\ configs' = GetEndpointConfigs(env)
    /\ pc' = "parsed"
    /\ UNCHANGED <<handler, env, lookup, gatewayVars>>
    /\ UNCHANGED <<hasEnded, writes, endCalls, clientClosed, stream, received,
                   terminal, lateWrite, closedError>>
    /\ UNCHANGED <<models, outcome, detail, backend, response>>

\* A call of getApiKeyFor(url).
CallGetApiKeyFor(url) ==
    /\ handler = "config" /\ pc = "parsed" /\ lookup = NoLookup
    /\ lookup' = [url |-> url, apiKey |-> GetApiKeyFor(env, url)]
    /\ UNCHANGED <<handler, pc, env, configs, gatewayVars>>
    /\ UNCHANGED <<hasEnded, writes, endCalls, clientClosed, stream, received,
                   terminal, lateWrite, closedError>>
    /\ UNCHANGED <<models, outcome, detail, backend, response>>

NextConfig ==
    \/ CallGetEndpointConfigs
    \/ \E url \in LookupUrls : CallGetApiKeyFor(url)

SpecConfig == InitConfig /\ [][NextConfig]_vars

----------------------------------------------------------------------------
(* Properties of the endpoint registry *)

\* The positions of the parsed entries with the url.
EntriesFor(url) == {i \in 1..Len(configs) : configs[i].url = url}

Min(S) == CHOOSE x \in S : \A y \in S : x <= y

LookedUp == handler = "config" /\ lookup # NoLookup

\* C14 as stated: getApiKeyFor returns null for a url that is in no parsed
\* entry, and otherwise the first credential configured for the url in
\* configuration order, also when an earlier entry for the url has none.
C14_FirstConfiguredCredential ==
    LookedUp =>
        LET withKey == {i \in EntriesFor(lookup.url) : configs[i].apiKey # Null}
        IN  lookup.apiKey = IF withKey = {} THEN Null ELSE configs[Min(withKey)].apiKey

\* C14, amended: getApiKeyFor returns null for a url that is in no parsed
\* entry, and otherwise the credential of the first entry for the url in
\* configuration order: null when that entry has no credential, whatever
\* the later entries for the url have.
C14_CredentialOfFirstEntry ==
    LookedUp =>
        lookup.apiKey = IF EntriesFor(lookup.url) = {} THEN Null
                        ELSE configs[Min(EntriesFor(lookup.url))].apiKey

\* The url looked up is configured twice with two different credentials and
\* the first one was returned.
C14_Witness ==
    /\ LookedUp
    /\ \E i, j \in EntriesFor(lookup.url) :
          /\ i < j
          /\ i = Min(EntriesFor(lookup.url))
          /\ configs[i].apiKey # Null /\ configs[j].apiKey # Null
          /\ configs[i].apiKey # configs[j].apiKey
          /\ lookup.apiKey = configs[i].apiKey

\* The entries of the configuration: the trimmed, non-empty pieces between
\* the commas of the value, or of the default when the value is empty.
EntriesOf(raw) == TrimmedNonEmpty(SplitBy(IF raw = << >> THEN DefaultUrl ELSE raw, ","))

\* C18: every parsed entry has a non-empty url; an entry without '_' gives
\* the whole entry as url and no credential; an entry with '_' gives the
\* (trimmed) text before the first '_' as url and the trimmed text after it
\* as credential, or no credential when that text is empty.
C18_UrlNonEmptyAndShape ==
    (handler = "config" /\ pc = "parsed") =>
        /\ Len(configs) = Len(EntriesOf(env))
        /\ \A i \in 1..Len(configs) :
              LET e == EntriesOf(env)[i]
                  c == configs[i]
              IN  /\ c.url # << >>
                  /\ (\A k \in 1..Len(e) : e[k] # "_") => c = [url |-> e, apiKey |-> Null]
                  /\ \A k \in 1..Len(e) :
                        (e[k] = "_" /\ \A j \in 1..(k - 1) : e[j] # "_") =>
                            /\ c.url = Trim(SubSeq(e, 1, k - 1))
                            /\ c.apiKey = IF Trim(SubSeq(e, k + 1, Len(e))) = << >>
                                          THEN Null
                                          ELSE Trim(SubSeq(e, k + 1, Len(e)))

----------------------------------------------------------------------------
(* The gateway: concurrent requests, the active target and the backend calls
   they issue.  What the handlers do with the answers is modelled above. *)

\* OLLAMA_ENDPOINTS of the gateway behaviours: url a with credential k, url k
\* with none.
GatewayEnv == <<"a", "_", "k", ",", "k">>

\* The endpoints POST /api/set-endpoint is given: a configured url with a
\* credential, a configured url without, and a text that is no url and is
\* not configured.
Endpoints == {<<"a">>, <<"k">>, <<"_">>}

\* `Bearer ${key}`: the template prints null as the text null.
BearerOf(key) == IF key = Null THEN <<"n", "u", "l", "l">> ELSE key

\* A request sent without an Authorization header.
NoHeader == <<"no-header">>

\* A backend call whose config carries the headers of server.js:103-106 (and
\* 122-125, 140-143, 195-198, 248-251); active is the value of ollamaEndpoint
\* when the call is built.
AuthCall(op, url, active, r) ==
    [op |-> op, url |-> url, bearer |-> BearerOf(GetApiKeyFor(env, active)), req |-> r]

\* axios.post(url, { name, headers }), server.js:149-156: the headers object
\* is part of the request body, the call has no config.
BodyCall(op, url, r) == [op |-> op, url |-> url, bearer |-> NoHeader, req |-> r]

\* A request whose handler has just started.
Req(kind, arg, at) ==
    [kind |-> kind, arg |-> arg, pc |-> at, status |-> 0, chunked |-> FALSE,
     listeners |-> FALSE, start |-> ollamaEndpoint, order |-> 0]

\* The request is answered with status.
Answered(r, status) == [reqs[r] EXCEPT !.pc = "done", !.status = status]

\* The probe of request r is answered; order counts the probes answered so far.
ProbeAnswered(r, status) ==
    [Answered(r, status) EXCEPT
        !.order = 1 + Cardinality({q \in 1..Len(reqs) : reqs[q].order > 0})]

OthersIdle ==
    /\ hasEnded = FALSE /\ writes = << >> /\ endCalls = 0 /\ clientClosed = FALSE
    /\ stream = "none" /\ received = << >> /\ terminal = NoTerminal
    /\ lateWrite = FALSE /\ closedError = FALSE
    /\ BatchIdle
    /\ configs = << >> /\ lookup = NoLookup

othersVars == <<handler, pc, hasEnded, writes, endCalls, clientClosed, stream, received,
                terminal, lateWrite, closedError, models, outcome, detail, backend,
                response, env, configs, lookup>>

InitGateway ==
    /\ handler = "gateway"
    /\ pc = "serving"
    /\ env = GatewayEnv
    /\ ollamaEndpoint = DefaultUrl
    /\ calls = << >>
    /\ reqs = << >>
    /\ OthersIdle

\* POST /api/set-endpoint up to its await, server.js:98-107.
ReceiveSetEndpoint(endpoint) ==
    /\ handler = "gateway" /\ Len(reqs) < MaxRequests
    /\ ollamaEndpoint' = endpoint
    /\ reqs' = Append(reqs, Req("set", endpoint, "probing"))
    /\ calls' = Append(calls, AuthCall("GET /api/tags", endpoint, ollamaEndpoint',
                                       Len(reqs) + 1))
    /\ UNCHANGED othersVars

\* Mutant of ProbeSettles: a failed probe puts the previous target back.
ProbeSettlesRestoring(r, ok) ==
    /\ handler = "gateway"
    /\ r \in 1..Len(reqs) /\ reqs[r].kind = "set" /\ reqs[r].pc = "probing"
    /\ reqs' = [reqs EXCEPT ![r] = ProbeAnswered(r, IF ok THEN 200 ELSE 500)]
    /\ ollamaEndpoint' = IF ok THEN ollamaEndpoint ELSE reqs[r].start
    /\ UNCHANGED calls
    /\ UNCHANGED othersVars

\* Mutant of ProbeSettles: the target is assigned when the probe has succeeded.
ProbeSettlesAssigning(r, ok) ==
    /\ handler = "gateway"
    /\ r \in 1..Len(reqs) /\ reqs[r].kind = "set" /\ reqs[r].pc = "probing"
    /\ reqs' = [reqs EXCEPT ![r] = ProbeAnswered(r, IF ok THEN 200 ELSE 500)]
    /\ ollamaEndpoint' = IF ok THEN reqs[r].arg ELSE ollamaEndpoint
    /\ UNCHANGED calls
    /\ UNCHANGED othersVars

\* The probe of POST /api/set-endpoint settles, server.js:108-115.
ProbeSettles(r, ok) ==
    /\ handler = "gateway"
    /\ r \in 1..Len(reqs) /\ reqs[r].kind = "set" /\ reqs[r].pc = "probing"
    /\ reqs' = [reqs EXCEPT ![r] = ProbeAnswered(r, IF ok THEN 200 ELSE 500)]
    /\ UNCHANGED <<ollamaEndpoint, calls>>
    /\ UNCHANGED othersVars

\* GET /api/ps up to its await, server.js:121-126.
ReceivePs ==
    /\ handler = "gateway" /\ Len(reqs) < MaxRequests
    /\ reqs' = Append(reqs, Req("ps", << >>, "calling"))
    /\ calls' = Append(calls, AuthCall("GET /api/ps", ollamaEndpoint, ollamaEndpoint,
                                       Len(reqs) + 1))
    /\ UNCHANGED ollamaEndpoint
    /\ UNCHANGED othersVars

\* The call of GET /api/ps settles, server.js:127-134.
PsSettles(r, ok) ==
    /\ handler = "gateway"
    /\ r \in 1..Len(reqs) /\ reqs[r].kind = "ps" /\ reqs[r].pc = "calling"
    /\ reqs' = [reqs EXCEPT ![r] = Answered(r, IF ok THEN 200 ELSE 500)]
    /\ UNCHANGED <<ollamaEndpoint, calls>>
    /\ UNCHANGED othersVars

\* GET /api/models up to its first await, server.js:139-144.
ReceiveModels ==
    /\ handler = "gateway" /\ Len(reqs) < MaxRequests
    /\ reqs' = Append(reqs, Req("models", << >>, "listing"))
    /\ calls' = Append(calls, AuthCall("GET /api/tags", ollamaEndpoint, ollamaEndpoint,
                                       Len(reqs) + 1))
    /\ UNCHANGED ollamaEndpoint
    /\ UNCHANGED othersVars

\* Mutant of ListSettles: the detail calls go to the target the handler
\* started with.
ListSettlesStale(r, ok, n) ==
    /\ handler = "gateway"
    /\ r \in 1..Len(reqs) /\ reqs[r].kind = "models" /\ reqs[r].pc = "listing"
    /\ IF ok
       THEN /\ reqs' = [reqs EXCEPT ![r].pc = "enriching"]
            /\ calls' = calls \o [i \in 1..n |->
                           BodyCall("POST /api/show", reqs[r].start, r)]
       ELSE /\ reqs' = [reqs EXCEPT ![r] = Answered(r, 500)]
            /\ UNCHANGED calls
    /\ UNCHANGED ollamaEndpoint
    /\ UNCHANGED othersVars

\* The list call of GET /api/models settles; when it resolved with n models,
\* the n detail calls are issued, server.js:147-156.
ListSettles(r, ok, n) ==
    /\ handler = "gateway"
    /\ r \in 1..Len(reqs) /\ reqs[r].kind = "models" /\ reqs[r].pc = "listing"
    /\ IF ok
       THEN /\ reqs' = [reqs EXCEPT ![r].pc = "enriching"]
            /\ calls' = calls \o [i \in 1..n |->
                           BodyCall("POST /api/show", ollamaEndpoint, r)]
       ELSE /\ reqs' = [reqs EXCEPT ![r] = Answered(r, 500)]
            /\ UNCHANGED calls
    /\ UNCHANGED ollamaEndpoint
    /\ UNCHANGED othersVars

\* The detail calls have settled: the listing is answered, server.js:175-178.
ModelsAnswers(r) ==
    /\ handler = "gateway"
    /\ r \in 1..Len(reqs) /\ reqs[r].kind = "models" /\ reqs[r].pc = "enriching"
    /\ reqs' = [reqs EXCEPT ![r] = Answered(r, 200)]
    /\ UNCHANGED <<ollamaEndpoint, calls>>
    /\ UNCHANGED othersVars

\* DELETE /api/models up to its await, server.js:190-200.
ReceiveDelete(list) ==
    /\ handler = "gateway" /\ Len(reqs) < MaxRequests
    /\ reqs' = Append(reqs, Req("delete", list, "deleting"))
    /\ calls' = calls \o [i \in 1..Len(list) |->
                    AuthCall("DELETE /api/delete", ollamaEndpoint, ollamaEndpoint,
                             Len(reqs) + 1)]
    /\ UNCHANGED ollamaEndpoint
    /\ UNCHANGED othersVars

\* The delete calls have settled, server.js:202-213.
DeleteAnswers(r, allOk) ==
    /\ handler = "gateway"
    /\ r \in 1..Len(reqs) /\ reqs[r].kind = "delete" /\ reqs[r].pc = "deleting"
    /\ reqs' = [reqs EXCEPT ![r] = Answered(r, IF allOk THEN 200 ELSE 500)]
    /\ UNCHANGED <<ollamaEndpoint, calls>>
    /\ UNCHANGED othersVars

\* The model names POST /api/pull and POST /api/update-model are given: none
\* (the field is missing), the empty string, a name.
ModelFields == {Null, << >>, <<"m">>}

\* Mutant of ReceiveRelay: the relay is started before the field is looked at.
ReceiveRelayUnchecked(kind, field) ==
    /\ handler = "gateway" /\ Len(reqs) < MaxRequests
    /\ reqs' = Append(reqs, [Req(kind, field, "awaiting") EXCEPT !.chunked = TRUE])
    /\ calls' = Append(calls, AuthCall("POST /api/pull", ollamaEndpoint, ollamaEndpoint,
                                       Len(reqs) + 1))
    /\ UNCHANGED ollamaEndpoint
    /\ UNCHANGED othersVars

\* POST /api/pull (field is req.body.model) and POST /api/update-model (field
\* is req.body.modelName) up to the await of handleModelOperation,
\* server.js:290-311 and 224-254.
ReceiveRelay(kind, field) ==
    /\ handler = "gateway" /\ Len(reqs) < MaxRequests
    /\ IF field = Null \/ field = << >>
       THEN /\ reqs' = Append(reqs, [Req(kind, field, "done") EXCEPT !.status = 400])
            /\ UNCHANGED calls
       ELSE /\ reqs' = Append(reqs, [Req(kind, field, "awaiting") EXCEPT !.chunked = TRUE])
            /\ calls' = Append(calls, AuthCall("POST /api/pull", ollamaEndpoint,
                                               ollamaEndpoint, Len(reqs) + 1))
    /\ UNCHANGED ollamaEndpoint
    /\ UNCHANGED othersVars

\* The POST of a relay settles: the listeners are registered, or the catch
\* ends the response, server.js:256-286.
RelayStarts(r, ok) ==
    /\ handler = "gateway"
    /\ r \in 1..Len(reqs) /\ reqs[r].kind \in {"pull", "update"} /\ reqs[r].pc = "awaiting"
    /\ reqs' = [reqs EXCEPT ![r] = IF ok
                                   THEN [reqs[r] EXCEPT !.pc = "listening", !.listeners = TRUE]
                                   ELSE Answered(r, 200)]
    /\ UNCHANGED <<ollamaEndpoint, calls>>
    /\ UNCHANGED othersVars

\* The lists DELETE /api/models is given here.
DeleteLists == {<<"x">>, <<"x", "y">>}

NextGateway ==
    \/ \E e \in Endpoints : ReceiveSetEndpoint(e)
    \/ \E r \in 1..MaxRequests, ok \in BOOLEAN : ProbeSettles(r, ok)
    \/ ReceivePs
    \/ \E r \in 1..MaxRequests, ok \in BOOLEAN : PsSettles(r, ok)
    \/ ReceiveModels
    \/ \E r \in 1..MaxRequests, ok \in BOOLEAN, n \in 0..2 : ListSettles(r, ok, n)
    \/ \E r \in 1..MaxRequests : ModelsAnswers(r)
    \/ \E l \in DeleteLists : ReceiveDelete(l)
    \/ \E r \in 1..MaxRequests, ok \in BOOLEAN : DeleteAnswers(r, ok)
    \/ \E k \in {"pull", "update"}, f \in ModelFields : ReceiveRelay(k, f)
    \/ \E r \in 1..MaxRequests, ok \in BOOLEAN : RelayStarts(r, ok)

SpecGateway == InitGateway /\ [][NextGateway]_vars

----------------------------------------------------------------------------
(* Properties of the gateway *)

\* The calls request r has issued.
CallsOf(r) == {i \in 1..Len(calls) : calls[i].req = r}

\* A set of the active target was received no later than request r.
AfterASet(r) == \E q \in 1..r : reqs[q].kind = "set"

\* C11: every backend call issued after a set of the active target carries
\* an Authorization header whose bearer value is the credential configured
\* for the url the call is addressed to, the text null when there is none.
C11_CallsCarryCredentialOfTarget ==
    \A i \in 1..Len(calls) :
        AfterASet(calls[i].req) =>
            calls[i].bearer = BearerOf(GetApiKeyFor(env, calls[i].url))

\* C12: receiving POST /api/set-endpoint makes the requested endpoint the
\* active target, whatever the endpoint is, and the answer to the probe, 200
\* or 500, leaves the active target as it is.
C12_SetOverwritesWhateverTheProbe ==
    [][/\ (Len(reqs') > Len(reqs) /\ Last(reqs').kind = "set")
            => ollamaEndpoint' = Last(reqs').arg
       /\ \A r \in 1..Len(reqs) :
            (reqs[r].kind = "set" /\ reqs[r].pc = "probing" /\ reqs'[r].pc = "done")
                => ollamaEndpoint' = ollamaEndpoint]_vars

\* A set to a text that is not configured was answered 500 and is the active
\* target, which was another one before.
C12_Witness ==
    \E r \in 1..Len(reqs) :
        /\ reqs[r].kind = "set" /\ reqs[r].status = 500
        /\ reqs[r].arg = <<"_">> /\ reqs[r].start # reqs[r].arg
        /\ ollamaEndpoint = reqs[r].arg

\* C13: a pull or update-model request without its field is answered 400,
\* has issued no backend call, set no chunked headers and registered no
\* stream listeners, in every state from its receipt on.
C13_MissingFieldIsRefusedBeforeAnyCall ==
    \A r \in 1..Len(reqs) :
        (reqs[r].kind \in {"pull", "update"} /\ reqs[r].arg = Null) =>
            /\ reqs[r].status = 400
            /\ CallsOf(r) = {}
            /\ ~reqs[r].chunked
            /\ ~reqs[r].listeners

\* Both routes have refused a request without its field while a pull with a
\* name is being relayed.
C13_Witness ==
    /\ \E r \in 1..Len(reqs) : reqs[r].kind = "pull" /\ reqs[r].arg = Null
    /\ \E r \in 1..Len(reqs) : reqs[r].kind = "update" /\ reqs[r].arg = Null
    /\ \E r \in 1..Len(reqs) : reqs[r].listeners /\ CallsOf(r) # {}

\* C17: every backend call is addressed to the active target of the step
\* that issues it, and a call that was issued is not changed afterwards.
C17_CallsUseTargetAtIssue ==
    [][/\ Len(calls') >= Len(calls)
       /\ SubSeq(calls', 1, Len(calls)) = calls
       /\ \A i \in (Len(calls) + 1)..Len(calls') : calls'[i].url = ollamaEndpoint']_vars

\* A listing whose detail calls went to another url than its list call, and
\* a relay whose POST went to a url that is no longer the active target.
C17_Witness ==
    /\ \E i, j \in 1..Len(calls) :
        /\ reqs[calls[i].req].kind = "models" /\ calls[i].req = calls[j].req
        /\ calls[i].op = "GET /api/tags" /\ calls[j].op = "POST /api/show"
        /\ calls[i].url # calls[j].url
        /\ calls[j].url = ollamaEndpoint
    /\ \E i \in 1..Len(calls) :
        /\ calls[i].op = "POST /api/pull" /\ calls[i].url # ollamaEndpoint
        /\ reqs[calls[i].req].listeners

\* The set requests received so far.
SetRequests == {q \in 1..Len(reqs) : reqs[q].kind = "set"}

\* The set request whose handler started last.
LastSetRequest == CHOOSE q \in SetRequests : \A p \in SetRequests : p <= q

\* C20: when no probe is pending, the active target is the endpoint of the
\* set request whose handler started last.
C20_LastStartedSetWins ==
    (SetRequests # {} /\ \A q \in SetRequests : reqs[q].pc = "done") =>
        ollamaEndpoint = reqs[LastSetRequest].arg

\* Two sets of different endpoints; the probe of the first, which succeeded,
\* was answered after the probe of the second, which failed.
C20_Witness ==
    \E p, q \in SetRequests :
        /\ p < q /\ q = LastSetRequest
        /\ reqs[p].arg # reqs[q].arg
        /\ reqs[p].order > reqs[q].order /\ reqs[q].order > 0
        /\ reqs[p].status = 200 /\ reqs[q].status = 500
        /\ ollamaEndpoint = reqs[q].arg

====
